---- MODULE Spec2Model ----
(***************************************************************************)
(* Content trust verification and decision pipeline of ARQV30 Enhanced.    *)
(*                                                                         *)
(*   services/enhanced_synthesis_engine.py  EnhancedSynthesisEngine:       *)
(*       signal extractors, rule engine, thresholds, verify_content_item   *)
(*   services/ai_verification_service.py    AIVerificationService:         *)
(*       process_session_data and the batch report                         *)
(*                                                                         *)
(* Numbers are exact rationals [n, d] in lowest terms; a text is a         *)
(* sequence of one-character strings.                                      *)
(***************************************************************************)
EXTENDS Integers, Sequences, FiniteSets, TLC

VARIABLES
  \* EnhancedSynthesisEngine
  rules,                \* rule_engine.rules, read from verifier_config['rules']
  verification_stats,   \* self.verification_stats
  item_data,            \* argument of the last verify_content_item call
  analysis_result,      \* its local analysis_result before the rules are applied
  rule_result,          \* its local rule_result
  verification_result,  \* value returned by that call
  consolidacao_data,    \* argument of the last _verify_all_data call
  verified_data,        \* value returned by that call
  full_context,         \* the context built from it by _build_verified_context
  \* AIVerificationService
  session_stats,        \* self.session_stats
  data_to_verify,       \* argument of the running process_session_data call
  items_to_analyze,     \* local of process_session_data
  verification_results, \* local of process_session_data
  pc,                   \* position of process_session_data
  final_result,         \* value returned by the last process_session_data call
  requests              \* the process_session_data calls of concurrent requests

vars == <<rules, verification_stats, item_data, analysis_result, rule_result,
          verification_result, consolidacao_data, verified_data, full_context,
          session_stats, data_to_verify, items_to_analyze,
          verification_results, pc, final_result, requests>>

synthesis_vars == <<consolidacao_data, verified_data, full_context>>

engine_vars == <<verification_stats, item_data, analysis_result, rule_result,
                 verification_result, synthesis_vars>>

service_vars == <<session_stats, data_to_verify, items_to_analyze,
                  verification_results, pc, final_result, requests>>

---------------------------------------------------------------------------
(* Exact arithmetic                                                        *)

RECURSIVE GCD(_, _)
GCD(a, b) == IF b = 0 THEN a ELSE GCD(b, a % b)

Abs(x) == IF x < 0 THEN -x ELSE x

\* n/d in lowest terms, d > 0
Rat(n, d) ==
  LET g == GCD(Abs(n), Abs(d))
      s == IF d < 0 THEN -1 ELSE 1
  IN  [n |-> (s * n) \div g, d |-> (s * d) \div g]

Zero == Rat(0, 1)
One == Rat(1, 1)

RAdd(a, b) == Rat(a.n * b.d + b.n * a.d, a.d * b.d)
RSub(a, b) == Rat(a.n * b.d - b.n * a.d, a.d * b.d)
RMul(a, b) == Rat(a.n * b.n, a.d * b.d)
RLt(a, b) == a.n * b.d < b.n * a.d
RLe(a, b) == a.n * b.d <= b.n * a.d
RMin(a, b) == IF RLe(a, b) THEN a ELSE b
RAbs(a) == [n |-> Abs(a.n), d |-> a.d]

RECURSIVE RSum(_)
RSum(s) == IF s = <<>> THEN Zero ELSE RAdd(Head(s), RSum(Tail(s)))

InUnit(a) == RLe(Zero, a) /\ RLe(a, One)

---------------------------------------------------------------------------
(* Python str operations on character sequences                            *)

IsSpace(c) == c \in {" ", "\t", "\n", "\r"}

UpperChars ==
  <<"A", "B", "C", "D", "E", "F", "G", "H", "I", "J", "K", "L", "M", "N", "O", "P", "Q",
    "R", "S", "T", "U", "V", "W", "X", "Y", "Z", "Á", "Ã", "Ç", "É", "Í", "Ó">>

LowerChars ==
  <<"a", "b", "c", "d", "e", "f", "g", "h", "i", "j", "k", "l", "m", "n", "o", "p", "q",
    "r", "s", "t", "u", "v", "w", "x", "y", "z", "á", "ã", "ç", "é", "í", "ó">>

\* str.lower() of one character
LowerOf ==
  [c \in {UpperChars[k] : k \in 1..Len(UpperChars)} |->
     LowerChars[CHOOSE k \in 1..Len(UpperChars) : UpperChars[k] = c]]

lower_char(c) == IF c \in DOMAIN LowerOf THEN LowerOf[c] ELSE c

\* str.lower()
lower(t) == SubSeq([i \in 1..Len(t) |-> lower_char(t[i])], 1, Len(t))

\* str.strip()
strip(t) ==
  LET idx == {i \in 1..Len(t) : ~IsSpace(t[i])}
  IN  IF idx = {} THEN <<>>
      ELSE SubSeq(t, CHOOSE i \in idx : \A j \in idx : i <= j,
                     CHOOSE i \in idx : \A j \in idx : j <= i)

\* len(t.split()): the number of maximal runs of non-whitespace characters
split_len(t) ==
  Cardinality({i \in 1..Len(t) : ~IsSpace(t[i]) /\ (i = 1 \/ IsSpace(t[i - 1]))})

\* w in t
contains(t, w) ==
  \E i \in 1..(Len(t) - Len(w) + 1) : \A j \in 1..Len(w) : t[i + j - 1] = w[j]

\* ' '.join(parts)
RECURSIVE join(_)
join(parts) ==
  IF parts = <<>> THEN <<>>
  ELSE IF Len(parts) = 1 THEN parts[1]
  ELSE parts[1] \o <<" ">> \o join(Tail(parts))

---------------------------------------------------------------------------
(* Sample texts                                                            *)

\* "abc"
TxtShort ==
  <<"a", "b", "c">>

\* "  ab  "
TxtPadded ==
  <<" ", " ", "a", "b", " ", " ">>

\* "ab"
TxtTwo ==
  <<"a", "b">>

\* "hello world"
TxtNeutral ==
  <<"h", "e", "l", "l", "o", " ", "w", "o", "r", "l", "d">>

\* "Este produto é excelente e incrível, recomendo!"
TxtScenarioA ==
  <<"E", "s", "t", "e", " ", "p", "r", "o", "d", "u", "t", "o", " ", "é", " ", "e", "x", "c",
    "e", "l", "e", "n", "t", "e", " ", "e", " ", "i", "n", "c", "r", "í", "v", "e", "l", ",",
    " ", "r", "e", "c", "o", "m", "e", "n", "d", "o", "!">>

\* "erro  ruim"
TxtNegative ==
  <<"e", "r", "r", "o", " ", " ", "r", "u", "i", "m">>

\* "sempre nunca todos"
TxtScenarioB ==
  <<"s", "e", "m", "p", "r", "e", " ", "n", "u", "n", "c", "a", " ", "t", "o", "d", "o", "s">>

\* "sempre nunca todos ninguém obviamente claramente fake news notícia falsa teoria da conspiração"
TxtRiskMax ==
  <<"s", "e", "m", "p", "r", "e", " ", "n", "u", "n", "c", "a", " ", "t", "o", "d", "o", "s",
    " ", "n", "i", "n", "g", "u", "é", "m", " ", "o", "b", "v", "i", "a", "m", "e", "n", "t",
    "e", " ", "c", "l", "a", "r", "a", "m", "e", "n", "t", "e", " ", "f", "a", "k", "e", " ",
    "n", "e", "w", "s", " ", "n", "o", "t", "í", "c", "i", "a", " ", "f", "a", "l", "s", "a",
    " ", "t", "e", "o", "r", "i", "a", " ", "d", "a", " ", "c", "o", "n", "s", "p", "i", "r",
    "a", "ç", "ã", "o">>

\* "BomÓtimo"
TxtPacked ==
  <<"B", "o", "m", "Ó", "t", "i", "m", "o">>

\* "cd"
TitleCd ==
  <<"c", "d">>

\* "c"
TitleC ==
  <<"c">>

\* "  "
TitleBlank ==
  <<" ", " ">>

---------------------------------------------------------------------------
(* EnhancedSynthesisEngine: configuration                                  *)

\* verifier_config['thresholds']
thresholds ==
  [approval |-> Rat(3, 4), rejection |-> Rat(7, 20), high_confidence |-> Rat(17, 20),
   low_confidence |-> Rat(1, 2), bias_high_risk |-> Rat(7, 10)]

\* verifier_config['rules']; a condition "f >= b" is the pair field, bound
high_confidence_approval ==
  [name |-> "high_confidence_approval", field |-> "overall_confidence",
   bound |-> Rat(17, 20),
   action |-> [status |-> "approved", reason |-> "Alta confiança no conteúdo"]]

high_risk_bias_rejection ==
  [name |-> "high_risk_bias_rejection", field |-> "overall_risk",
   bound |-> Rat(7, 10),
   action |-> [status |-> "rejected", reason |-> "Alto risco de viés/desinformação"]]

DefaultRules == <<high_confidence_approval, high_risk_bias_rejection>>

\* BasicSentimentAnalyzer.__init__
positive_words ==
  { <<"b", "o", "m">>,
    <<"ó", "t", "i", "m", "o">>,
    <<"e", "x", "c", "e", "l", "e", "n", "t", "e">>,
    <<"m", "a", "r", "a", "v", "i", "l", "h", "o", "s", "o">>,
    <<"p", "e", "r", "f", "e", "i", "t", "o">>,
    <<"i", "n", "c", "r", "í", "v", "e", "l">>,
    <<"f", "a", "n", "t", "á", "s", "t", "i", "c", "o">> }

negative_words ==
  { <<"r", "u", "i", "m">>,
    <<"p", "é", "s", "s", "i", "m", "o">>,
    <<"t", "e", "r", "r", "í", "v", "e", "l">>,
    <<"h", "o", "r", "r", "í", "v", "e", "l">>,
    <<"p", "r", "o", "b", "l", "e", "m", "a">>,
    <<"e", "r", "r", "o">>,
    <<"f", "a", "l", "h", "a">> }

\* verifier_config['bias_detection']
bias_keywords ==
  << <<"s", "e", "m", "p", "r", "e">>,
     <<"n", "u", "n", "c", "a">>,
     <<"t", "o", "d", "o", "s">>,
     <<"n", "i", "n", "g", "u", "é", "m">>,
     <<"o", "b", "v", "i", "a", "m", "e", "n", "t", "e">>,
     <<"c", "l", "a", "r", "a", "m", "e", "n", "t", "e">> >>

disinformation_patterns ==
  << <<"f", "a", "k", "e", " ", "n", "e", "w", "s">>,
     <<"n", "o", "t", "í", "c", "i", "a", " ", "f", "a", "l", "s", "a">>,
     <<"t", "e", "o", "r", "i", "a", " ", "d", "a", " ", "c", "o", "n", "s", "p", "i", "r",
       "a", "ç", "ã", "o">> >>

\* dict.get(key, default)
Get(d, key, default) == IF key \in DOMAIN d THEN d[key] ELSE default

---------------------------------------------------------------------------
(* Signal extractors                                                       *)

\* analyze_sentiment without the cap of the confidence at 1.0
analyze_sentiment_uncapped(text) ==
  LET text_lower == lower(text)
      positive_count == Cardinality({w \in positive_words : contains(text_lower, w)})
      negative_count == Cardinality({w \in negative_words : contains(text_lower, w)})
      total_words == split_len(text_lower)
      polarity == Rat(positive_count - negative_count,
                      IF total_words > 1 THEN total_words ELSE 1)
      classification == IF RLt(Rat(1, 20), polarity) THEN "positive"
                        ELSE IF RLt(polarity, Rat(-1, 20)) THEN "negative"
                        ELSE "neutral"
  IN  IF text = <<>> \/ total_words = 0
      THEN [polarity |-> Zero, classification |-> "neutral", confidence |-> Rat(1, 2)]
      ELSE [polarity |-> polarity, classification |-> classification,
            confidence |-> RAdd(RMul(RAbs(polarity), Rat(5, 1)), Rat(3, 10))]

\* BasicSentimentAnalyzer.analyze_sentiment
analyze_sentiment(text) ==
  LET text_lower == lower(text)
      positive_count == Cardinality({w \in positive_words : contains(text_lower, w)})
      negative_count == Cardinality({w \in negative_words : contains(text_lower, w)})
      total_words == split_len(text_lower)
      polarity == Rat(positive_count - negative_count,
                      IF total_words > 1 THEN total_words ELSE 1)
      classification == IF RLt(Rat(1, 20), polarity) THEN "positive"
                        ELSE IF RLt(polarity, Rat(-1, 20)) THEN "negative"
                        ELSE "neutral"
      confidence == RMin(RAdd(RMul(RAbs(polarity), Rat(5, 1)), Rat(3, 10)), One)
  IN  IF text = <<>> \/ total_words = 0
      THEN [polarity |-> Zero, classification |-> "neutral", confidence |-> Rat(1, 2)]
      ELSE [polarity |-> polarity, classification |-> classification,
            confidence |-> confidence]

\* the detector with 0.3 instead of 0.2 for each disinformation pattern
detect_bias_disinformation_heavy(text) ==
  LET text_lower == lower(text)
      detected_bias == SelectSeq(bias_keywords, LAMBDA kw : contains(text_lower, kw))
      detected_disinfo ==
        SelectSeq(disinformation_patterns, LAMBDA pat : contains(text_lower, pat))
      bias_score == RMin(RMul(Rat(Len(detected_bias), 1), Rat(1, 10)), One)
      disinfo_score == RMin(RMul(Rat(Len(detected_disinfo), 1), Rat(3, 10)), One)
      overall_risk == RAdd(RMul(bias_score, Rat(4, 10)), RMul(disinfo_score, Rat(6, 10)))
  IN  IF text = <<>>
      THEN [overall_risk |-> Zero, detected_bias_keywords |-> <<>>,
            detected_disinformation_patterns |-> <<>>]
      ELSE [bias_score |-> bias_score,
            disinformation_score |-> disinfo_score,
            overall_risk |-> overall_risk,
            detected_bias_keywords |-> detected_bias,
            detected_disinformation_patterns |-> detected_disinfo,
            confidence |-> IF detected_bias # <<>> \/ detected_disinfo # <<>>
                           THEN Rat(7, 10) ELSE Rat(1, 2)]

\* BasicBiasDetector.detect_bias_disinformation
detect_bias_disinformation(text) ==
  LET text_lower == lower(text)
      detected_bias == SelectSeq(bias_keywords, LAMBDA kw : contains(text_lower, kw))
      detected_disinfo ==
        SelectSeq(disinformation_patterns, LAMBDA pat : contains(text_lower, pat))
      bias_score == RMin(RMul(Rat(Len(detected_bias), 1), Rat(1, 10)), One)
      disinfo_score == RMin(RMul(Rat(Len(detected_disinfo), 1), Rat(2, 10)), One)
      overall_risk == RAdd(RMul(bias_score, Rat(4, 10)), RMul(disinfo_score, Rat(6, 10)))
  IN  IF text = <<>>
      THEN [overall_risk |-> Zero, detected_bias_keywords |-> <<>>,
            detected_disinformation_patterns |-> <<>>]
      ELSE [bias_score |-> bias_score,
            disinformation_score |-> disinfo_score,
            overall_risk |-> overall_risk,
            detected_bias_keywords |-> detected_bias,
            detected_disinformation_patterns |-> detected_disinfo,
            confidence |-> IF detected_bias # <<>> \/ detected_disinfo # <<>>
                           THEN Rat(7, 10) ELSE Rat(1, 2)]

\* the analyzer with a source reliability of 0.5
analyze_context_unreliable(item) ==
  LET consistency_score == Rat(7, 10)
      source_reliability == Rat(5, 10)
      temporal_coherence == Rat(7, 10)
  IN  [contextual_confidence |->
         RAdd(RAdd(RMul(consistency_score, Rat(4, 10)),
                   RMul(source_reliability, Rat(4, 10))),
              RMul(temporal_coherence, Rat(2, 10))),
       consistency_score |-> consistency_score,
       source_reliability_score |-> source_reliability,
       temporal_coherence_score |-> temporal_coherence,
       context_flags |-> <<>>]

\* BasicContextualAnalyzer.analyze_context
analyze_context(item) ==
  LET consistency_score == Rat(7, 10)
      source_reliability == Rat(6, 10)
      temporal_coherence == Rat(7, 10)
  IN  [contextual_confidence |->
         RAdd(RAdd(RMul(consistency_score, Rat(4, 10)),
                   RMul(source_reliability, Rat(4, 10))),
              RMul(temporal_coherence, Rat(2, 10))),
       consistency_score |-> consistency_score,
       source_reliability_score |-> source_reliability,
       temporal_coherence_score |-> temporal_coherence,
       context_flags |-> <<>>]

---------------------------------------------------------------------------
(* Rule engine, thresholds and final decision                              *)

\* apply_rules comparing the risk with the high_confidence bound 0.85
apply_rules_wrong_bound(analysis) ==
  LET bias == Get(analysis, "bias_disinformation_analysis", <<>>)
      overall_risk == Get(bias, "overall_risk", Zero)
  IN  IF RLe(Rat(17, 20), overall_risk)
      THEN [status |-> "rejected",
            reason |-> "Alto risco de viés/desinformação",
            triggered_rules |-> <<"high_risk_bias_rejection">>]
      ELSE [status |-> "approved",
            reason |-> "Análise padrão aprovada",
            triggered_rules |-> <<>>]

\* BasicRuleEngine.apply_rules: self.rules is never read
apply_rules(analysis) ==
  LET bias == Get(analysis, "bias_disinformation_analysis", <<>>)
      overall_risk == Get(bias, "overall_risk", Zero)
  IN  IF RLe(Rat(7, 10), overall_risk)
      THEN [status |-> "rejected",
            reason |-> "Alto risco de viés/desinformação",
            triggered_rules |-> <<"high_risk_bias_rejection">>]
      ELSE [status |-> "approved",
            reason |-> "Análise padrão aprovada",
            triggered_rules |-> <<>>]

\* BasicConfidenceThresholds.should_approve
should_approve(confidence) == RLe(Get(thresholds, "approval", Rat(3, 4)), confidence)

\* BasicConfidenceThresholds.should_reject
should_reject(confidence) == RLe(confidence, Get(thresholds, "rejection", Rat(7, 20)))

\* the three weighted terms of _make_final_decision
confidences(analysis) ==
  LET sentiment == Get(analysis, "sentiment_analysis", <<>>)
      bias == Get(analysis, "bias_disinformation_analysis", <<>>)
      contextual == Get(analysis, "contextual_analysis", <<>>)
  IN  << RMul(Get(sentiment, "confidence", Rat(1, 2)), Rat(2, 10)),
         RMul(RSub(One, Get(bias, "overall_risk", Rat(1, 2))), Rat(3, 10)),
         RMul(Get(contextual, "contextual_confidence", Rat(1, 2)), Rat(5, 10)) >>

\* a breakdown whose bias term is not inverted
confidence_breakdown_risk_term(analysis) ==
  [sentiment_contribution |-> confidences(analysis)[1],
   bias_contribution |->
     RMul(Get(Get(analysis, "bias_disinformation_analysis", <<>>), "overall_risk",
              Rat(1, 2)), Rat(3, 10)),
   contextual_contribution |-> confidences(analysis)[3]]

\* 'confidence_breakdown' of _make_final_decision
confidence_breakdown(analysis) ==
  [sentiment_contribution |-> confidences(analysis)[1],
   bias_contribution |-> confidences(analysis)[2],
   contextual_contribution |-> confidences(analysis)[3]]

\* a decision in which the approval threshold overrides the rule result
_make_final_decision_threshold_first(analysis, rule) ==
  LET final_confidence == RSum(confidences(analysis))
      status == IF should_approve(final_confidence) THEN "approved" ELSE rule.status
      reason == IF should_approve(final_confidence)
                THEN "Aprovado com base na análise combinada"
                ELSE rule.reason
  IN  [status |-> status,
       reason |-> reason,
       final_confidence |-> final_confidence,
       confidence_breakdown |-> confidence_breakdown(analysis)]

\* EnhancedSynthesisEngine._make_final_decision (timestamp and version omitted)
_make_final_decision(analysis, rule) ==
  LET final_confidence == RSum(confidences(analysis))
      by_rule == Get(rule, "status", "none") \in {"approved", "rejected"}
      status == IF by_rule THEN rule.status
                ELSE IF should_approve(final_confidence) THEN "approved"
                ELSE "rejected"
      reason == IF by_rule THEN rule.reason
                ELSE IF should_approve(final_confidence)
                     THEN "Aprovado com base na análise combinada"
                ELSE IF should_reject(final_confidence)
                     THEN "Rejeitado com base na análise combinada"
                ELSE "Rejeitado por ambiguidade - política de segurança"
  IN  [status |-> status,
       reason |-> reason,
       final_confidence |-> final_confidence,
       confidence_breakdown |-> confidence_breakdown(analysis)]

---------------------------------------------------------------------------
(* verify_content_item                                                     *)

\* a dict or local that has not been assigned
NoResult == [none |-> TRUE]

priority_fields == <<"content", "text", "description", "title", "summary">>

\* the stripped values of the fields that are present and not blank
RECURSIVE text_parts(_, _)
text_parts(item, fields) ==
  IF fields = <<>> THEN <<>>
  ELSE LET f == Head(fields)
           content == IF f \in DOMAIN item /\ item[f] # <<>> THEN strip(item[f]) ELSE <<>>
       IN  (IF content # <<>> THEN <<content>> ELSE <<>>) \o text_parts(item, Tail(fields))

\* EnhancedSynthesisEngine._extract_text_content
_extract_text_content(item) == strip(join(text_parts(item, priority_fields)))

\* EnhancedSynthesisEngine._create_insufficient_content_result
_create_insufficient_content_result(item) ==
  [item_id |-> Get(item, "id", [kind |-> "sem_id", n |-> 0]),
   ai_review |-> [status |-> "rejected",
                  reason |-> "Conteúdo textual insuficiente",
                  final_confidence |-> Zero,
                  insufficient_content |-> TRUE]]

\* EnhancedSynthesisEngine._create_error_result
_create_error_result(item) ==
  [item_id |-> Get(item, "id", [kind |-> "sem_id", n |-> 0]),
   ai_review |-> [status |-> "rejected",
                  reason |-> "Erro",
                  final_confidence |-> Zero,
                  error |-> TRUE]]

\* the update that counts the call but not its status
_update_verification_stats_total_only(stats, status) ==
  [total_verified |-> stats.total_verified + 1,
   approved |-> stats.approved,
   rejected |-> stats.rejected]

\* EnhancedSynthesisEngine._update_verification_stats
_update_verification_stats(stats, status) ==
  [total_verified |-> stats.total_verified + 1,
   approved |-> stats.approved + (IF status = "approved" THEN 1 ELSE 0),
   rejected |-> stats.rejected + (IF status = "rejected" THEN 1 ELSE 0)]

\* the length test with the limit off by one
insufficient_below_four(text_content) ==
  text_content = <<>> \/ Len(strip(text_content)) < 4

\* the length test of verify_content_item, line 256
insufficient(text_content) == text_content = <<>> \/ Len(strip(text_content)) < 5

\* item_data.get('id', f'item_{self.verification_stats["total_verified"]}')
item_id_of(item, stats) ==
  Get(item, "id", [kind |-> "item", n |-> stats.total_verified])

\* the analyzers called in lines 260-266, in call order
Extractors == <<"sentiment", "bias", "contextual">>

\* the analyzer whose call raises for this item, "none" when all three return
failing_extractor(item) == Get(item, "extractor_raises", "none")

\* EnhancedSynthesisEngine.verify_content_item: the returned dict, the locals
\* analysis_result and rule_result, and verification_stats after the call.
\* str(item[field]) raising and an analyzer raising are the exceptions of the
\* try block.
verify_content_item(item, stats) ==
  LET item_id == item_id_of(item, stats)
      text_content == _extract_text_content(item)
      analysis == [item_id |-> item_id,
                   sentiment_analysis |-> analyze_sentiment(text_content),
                   bias_disinformation_analysis |->
                     detect_bias_disinformation(text_content),
                   contextual_analysis |-> analyze_context(item)]
      rule == apply_rules(analysis)
      final_decision == _make_final_decision(analysis, rule)
  IN  IF item.str_raises
      THEN [result |-> _create_error_result(item), analysis |-> NoResult,
            rule |-> NoResult, stats |-> stats]
      ELSE IF insufficient(text_content)
      THEN [result |-> _create_insufficient_content_result(item), analysis |-> NoResult,
            rule |-> NoResult, stats |-> stats]
      ELSE IF failing_extractor(item) # "none"
      THEN [result |-> _create_error_result(item), analysis |-> NoResult,
            rule |-> NoResult, stats |-> stats]
      ELSE [result |-> [ai_review |-> final_decision] @@ analysis,
            analysis |-> analysis,
            rule |-> rule,
            stats |-> _update_verification_stats(stats, final_decision.status)]

---------------------------------------------------------------------------
(* Inputs                                                                  *)

MaxVerified == 3

\* contents around the five-character limit, combined with every title
ShortContents == {<<>>, TxtShort, TxtPadded, TxtTwo}

\* contents that go through the whole pipeline
LongContents ==
  {TxtNeutral, TxtScenarioA, TxtNegative, TxtScenarioB, TxtRiskMax, TxtPacked}

TitleSamples == {<<>>, TitleCd, TitleC, TitleBlank}

Item(c, t, r) ==
  [content |-> c, text |-> <<>>, description |-> <<>>, title |-> t, summary |-> <<>>,
   str_raises |-> r]

WithId(item) == [id |-> [kind |-> "id", n |-> 1]] @@ item

\* an item for which the call of analyzer e raises
Raising(item, e) == [extractor_raises |-> e] @@ item

\* items with and without an 'id'; one of each holds a value whose str()
\* raises, and one of each makes each analyzer raise
ItemSamples ==
  LET plain == {Item(c, t, FALSE) : c \in ShortContents, t \in TitleSamples}
                 \cup {Item(c, <<>>, FALSE) : c \in LongContents}
                 \cup {Item(<<>>, <<>>, TRUE)}
                 \cup {Raising(Item(TxtScenarioA, <<>>, FALSE), Extractors[k]) :
                         k \in 1..Len(Extractors)}
  IN  plain \cup {WithId(i) : i \in plain}

---------------------------------------------------------------------------
(* Specification of the engine: verify_content_item under the default      *)
(* configuration                                                           *)

InitStats == [total_verified |-> 0, approved |-> 0, rejected |-> 0]

\* the requests served concurrently by the one service instance of the routes
Requests == {1, 2}

\* a request that has not called process_session_data yet
IdleRequest ==
  [pc |-> "idle", items_to_analyze |-> <<>>, verification_results |-> <<>>,
   key |-> "none", counter |-> 0, final_result |-> NoResult]

\* no consolidation has been verified yet
InitSynthesis ==
  /\ consolidacao_data = NoResult
  /\ verified_data = NoResult
  /\ full_context = NoResult

InitService ==
  /\ session_stats = [items_processed |-> 0, items_approved |-> 0, items_rejected |-> 0]
  /\ requests = [t \in Requests |-> IdleRequest]
  /\ data_to_verify = NoResult
  /\ items_to_analyze = <<>>
  /\ verification_results = <<>>
  /\ pc = "idle"
  /\ final_result = NoResult

Init ==
  /\ rules = DefaultRules
  /\ verification_stats = InitStats
  /\ item_data = NoResult
  /\ analysis_result = NoResult
  /\ rule_result = NoResult
  /\ verification_result = NoResult
  /\ InitSynthesis
  /\ InitService

VerifyContentItem ==
  /\ verification_stats.total_verified < MaxVerified
  /\ \E item \in ItemSamples :
       \E out \in {verify_content_item(item, verification_stats)} :
           /\ item_data' = item
           /\ analysis_result' = out.analysis
           /\ rule_result' = out.rule
           /\ verification_result' = out.result
           /\ verification_stats' = out.stats
  /\ UNCHANGED <<rules, synthesis_vars, service_vars>>

Next == VerifyContentItem

Spec == Init /\ [][Next]_vars

---------------------------------------------------------------------------
(* Specification of the decision core: apply_rules and                     *)
(* _make_final_decision (verify_content_item, lines 271-296) applied to    *)
(* signal values of pluggable extractors and to configured rule lists      *)

GridDen == 10
MaxRules == 2

\* a rule a caller may configure next to the two default ones
low_confidence_approval ==
  [name |-> "low_confidence_approval", field |-> "overall_confidence",
   bound |-> thresholds.low_confidence,
   action |-> [status |-> "approved", reason |-> "Confiança suficiente"]]

RulePool == {high_confidence_approval, high_risk_bias_rejection, low_confidence_approval}

\* the ordered lists of distinct rules
RuleLists ==
  UNION {{l \in [1..k -> RulePool] : \A i, j \in 1..k : i # j => l[i] # l[j]} :
         k \in 0..MaxRules}

Grid == {Rat(k, GridDen) : k \in 0..GridDen}

AnalysisSamples ==
  {[item_id |-> [kind |-> "id", n |-> 1],
    sentiment_analysis |-> [classification |-> cl, confidence |-> s],
    bias_disinformation_analysis |-> [overall_risk |-> r],
    contextual_analysis |-> [contextual_confidence |-> c]] :
     cl \in {"positive", "neutral", "negative"}, s \in Grid, r \in Grid, c \in Grid}

InitDecision ==
  /\ rules \in RuleLists
  /\ analysis_result \in AnalysisSamples
  /\ verification_stats = InitStats
  /\ item_data = NoResult
  /\ rule_result = NoResult
  /\ verification_result = NoResult
  /\ InitSynthesis
  /\ InitService

\* verify_content_item, lines 281-296, on the analysis at hand
Decide ==
  /\ verification_result = NoResult
  /\ \E rule \in {apply_rules(analysis_result)} :
       \E final_decision \in {_make_final_decision(analysis_result, rule)} :
         /\ rule_result' = rule
         /\ verification_result' = [ai_review |-> final_decision] @@ analysis_result
  /\ UNCHANGED <<rules, verification_stats, item_data, analysis_result, synthesis_vars,
               service_vars>>

NextDecision == Decide

SpecDecision == InitDecision /\ [][NextDecision]_vars

---------------------------------------------------------------------------
(* Properties of the decision                                              *)

\* the last call returned a dict
Returned == verification_result # NoResult

\* the last call ran the extractors, the rule engine and the decision
FullyAnalysed == Returned /\ "sentiment_analysis" \in DOMAIN verification_result

ai_review == verification_result.ai_review

Composite == ai_review.final_confidence

Risk == verification_result.bias_disinformation_analysis.overall_risk

\* the composite as the weighted sum of the three signals of the result
WeightedTerms ==
  << RMul(verification_result.sentiment_analysis.confidence, Rat(2, 10)),
     RMul(RSub(One, Risk), Rat(3, 10)),
     RMul(verification_result.contextual_analysis.contextual_confidence, Rat(5, 10)) >>

\* the predicate of a configured rule holds for the signals of the result
RuleHolds(r) ==
  RLe(r.bound, IF r.field = "overall_confidence" THEN Composite ELSE Risk)

Matching == {i \in 1..Len(rules) : RuleHolds(rules[i])}

FirstMatch == rules[CHOOSE i \in Matching : \A j \in Matching : i <= j]

AmbiguousReason == "Rejeitado por ambiguidade - política de segurança"

\* C1: when no rule matches, the item is approved only with a composite of at
\* least 0.75, rejected with a composite of at most 0.35, and rejected for
\* ambiguity with a composite strictly in between.
C1_ThresholdDecision ==
  (FullyAnalysed /\ Matching = {}) =>
    /\ ai_review.status = "approved" => RLe(thresholds.approval, Composite)
    /\ RLe(Composite, thresholds.rejection) => ai_review.status = "rejected"
    /\ (RLt(thresholds.rejection, Composite) /\ RLt(Composite, thresholds.approval))
         => ai_review.status = "rejected" /\ ai_review.reason = AmbiguousReason

\* C2: when a rule declared first and a later rule both match, the decision
\* is the action of the one declared first.
C2_FirstMatchWins ==
  (FullyAnalysed /\ Cardinality(Matching) >= 2) =>
    /\ ai_review.status = FirstMatch.action.status
    /\ ai_review.reason = FirstMatch.action.reason

C4_FirstMatchOrNoMatch ==
  FullyAnalysed =>
    IF Matching = {}
    THEN rule_result.status \notin {"approved", "rejected"}
    ELSE /\ rule_result.status = FirstMatch.action.status
         /\ rule_result.reason = FirstMatch.action.reason

\* C5: an item whose normalized text has fewer than 5 characters is rejected
\* for insufficient content with confidence 0, and no extractor, rule or
\* aggregation has run.
C5_InsufficientContent ==
  (Returned /\ ~item_data.str_raises /\ Len(_extract_text_content(item_data)) < 5) =>
    /\ ai_review.status = "rejected"
    /\ ai_review.reason = "Conteúdo textual insuficiente"
    /\ ai_review.final_confidence = Zero
    /\ DOMAIN verification_result = {"item_id", "ai_review"}
    /\ "confidence_breakdown" \notin DOMAIN ai_review
    /\ analysis_result = NoResult
    /\ rule_result = NoResult

\* a text of exactly four characters was rejected
C5_Witness ==
  /\ Returned
  /\ ~item_data.str_raises
  /\ Len(_extract_text_content(item_data)) = 4
  /\ ai_review.status = "rejected"
  /\ "insufficient_content" \in DOMAIN ai_review

\* C6: an overall risk of at least 0.7 is rejected by rule
\* high_risk_bias_rejection whatever the sentiment is.
C6_HighRiskRejected ==
  (FullyAnalysed /\ RLe(Rat(7, 10), Risk)) =>
    /\ ai_review.status = "rejected"
    /\ ai_review.reason = high_risk_bias_rejection.action.reason
    /\ rule_result.triggered_rules = <<"high_risk_bias_rejection">>

\* a risk just above 0.7 with a fully confident positive sentiment
C6_Witness ==
  /\ FullyAnalysed
  /\ RLe(Rat(7, 10), Risk)
  /\ RLt(Risk, Rat(3, 4))
  /\ verification_result.sentiment_analysis.classification = "positive"
  /\ verification_result.sentiment_analysis.confidence = One
  /\ ai_review.status = "rejected"

\* C7: the final confidence of every returned decision lies in [0,1].
C7_ConfidenceInUnit == Returned => InUnit(ai_review.final_confidence)

\* a decision of the whole pipeline with a saturated sentiment confidence
C7_Witness ==
  /\ FullyAnalysed
  /\ verification_result.sentiment_analysis.confidence = One
  /\ RLt(Rat(1, 1), RAbs(verification_result.sentiment_analysis.polarity))
  /\ RLt(Zero, Composite)

\* C8 as stated: every decision, the insufficient-content and error ones
\* included, has the three weighted terms as breakdown, summing to the
\* final confidence.
C8_BreakdownOnEveryDecision ==
  Returned =>
    /\ "confidence_breakdown" \in DOMAIN ai_review
    /\ FullyAnalysed
    /\ ai_review.confidence_breakdown =
         [sentiment_contribution |-> WeightedTerms[1],
          bias_contribution |-> WeightedTerms[2],
          contextual_contribution |-> WeightedTerms[3]]
    /\ RSum(WeightedTerms) = ai_review.final_confidence

\* C8 amended: a decision of the whole pipeline has the three weighted terms
\* as breakdown and they sum to its final confidence; an insufficient-content
\* or error decision has final confidence 0 and no breakdown.
C8_BreakdownOfFullDecision ==
  Returned =>
    IF FullyAnalysed
    THEN /\ ai_review.confidence_breakdown =
              [sentiment_contribution |-> WeightedTerms[1],
               bias_contribution |-> WeightedTerms[2],
               contextual_contribution |-> WeightedTerms[3]]
         /\ RAdd(RAdd(ai_review.confidence_breakdown.sentiment_contribution,
                      ai_review.confidence_breakdown.bias_contribution),
                 ai_review.confidence_breakdown.contextual_contribution)
              = ai_review.final_confidence
    ELSE /\ "confidence_breakdown" \notin DOMAIN ai_review
         /\ ai_review.final_confidence = Zero

\* a whole-pipeline decision with a non-zero risk term
C8_Witness ==
  /\ FullyAnalysed
  /\ RLt(Zero, Risk)
  /\ "confidence_breakdown" \in DOMAIN ai_review
  /\ ai_review.confidence_breakdown.bias_contribution = RMul(RSub(One, Risk), Rat(3, 10))

---------------------------------------------------------------------------
(* AIVerificationService                                                   *)

MaxEntries == 3
MaxProcessed == 3

\* the sections of data_to_verify in the order _prepare_data_for_analysis
\* reads them, with the prefix of the item ids
Sections ==
  <<"analysis_results", "content_analysis", "competitor_analysis", "market_insights",
    "web_research">>

IdPrefix ==
  [analysis_results |-> "analysis", content_analysis |-> "content",
   competitor_analysis |-> "competitor", market_insights |-> "insight",
   web_research |-> "web"]

SectionRank(s) == CHOOSE k \in 1..Len(Sections) : Sections[k] = s

\* what _prepare_data_for_analysis does with an entry of a section:
\*   kept     an item is appended
\*   skipped  the isinstance/truthiness test fails ({}, '', a number, ...)
\*   raises   json.dumps rejects the value (a set, an object, ...)
EntryTypes ==
  {[section |-> s, kind |-> k] :
     s \in {"analysis_results", "web_research"}, k \in {"kept", "skipped"}}
  \cup {[section |-> s, kind |-> k] :
     s \in {"content_analysis", "competitor_analysis"},
     k \in {"kept", "skipped", "raises"}}
  \cup {[section |-> "market_insights", kind |-> "kept"]}

\* data_to_verify: the entries of all sections, section by section
DataSamples ==
  UNION {{d \in [1..k -> EntryTypes] :
            \A i, j \in 1..k :
              i < j => SectionRank(d[i].section) <= SectionRank(d[j].section)} :
         k \in 0..MaxEntries}

\* the index or key of entry i within its section
KeyOf(data, i) == Cardinality({j \in 1..(i - 1) : data[j].section = data[i].section})

\* json.dumps raises in _prepare_data_for_analysis
PrepareRaises(data) == \E i \in 1..Len(data) : data[i].kind = "raises"

\* AIVerificationService._prepare_data_for_analysis
RECURSIVE prepare_from(_, _)
prepare_from(data, i) ==
  IF i > Len(data) THEN <<>>
  ELSE (IF data[i].kind = "kept"
        THEN <<[id |-> [kind |-> IdPrefix[data[i].section], n |-> KeyOf(data, i)],
                source |-> data[i].section]>>
        ELSE <<>>) \o prepare_from(data, i + 1)

_prepare_data_for_analysis(data) == prepare_from(data, 1)

\* results of the review agent: the AnalysisResult of the specification with
\* its Decision and the signals the service reads (sentiment classification,
\* overall risk, matched bias terms). One confident approval, one approval
\* with a risk above 0.6, one rejection for insufficient content without any
\* signal, one rejection with a risk of 0.7 and one rejection with a risk of
\* exactly 0.6.
ReviewSamples ==
  {[ai_review |-> [status |-> "approved", reason |-> "Análise padrão aprovada",
                   final_confidence |-> Rat(9, 10)],
    sentiment_analysis |-> [classification |-> "positive"],
    bias_disinformation_analysis |->
      [overall_risk |-> Zero, detected_bias_keywords |-> <<>>]],
   [ai_review |-> [status |-> "approved", reason |-> "Análise padrão aprovada",
                   final_confidence |-> Rat(8, 10)],
    sentiment_analysis |-> [classification |-> "neutral"],
    bias_disinformation_analysis |->
      [overall_risk |-> Rat(65, 100), detected_bias_keywords |-> <<"sempre">>]],
   [ai_review |-> [status |-> "rejected", reason |-> "Conteúdo textual insuficiente",
                   final_confidence |-> Zero]],
   [ai_review |-> [status |-> "rejected",
                   reason |-> "Alto risco de viés/desinformação",
                   final_confidence |-> Rat(5, 10)],
    sentiment_analysis |-> [classification |-> "negative"],
    bias_disinformation_analysis |->
      [overall_risk |-> Rat(7, 10), detected_bias_keywords |-> <<"sempre", "nunca">>]],
   [ai_review |-> [status |-> "rejected",
                   reason |-> "Rejeitado por ambiguidade - política de segurança",
                   final_confidence |-> Rat(4, 10)],
    sentiment_analysis |-> [classification |-> "negative"],
    bias_disinformation_analysis |->
      [overall_risk |-> Rat(6, 10), detected_bias_keywords |-> <<"todos">>]]}

\* ExternalReviewAgent.process_item (services/external_review_agent.py), after
\* the AnalysisResult and Decision of the specification: one result per item,
\* carrying the item's id, a decision with status approved or rejected and a
\* final confidence, and the signals
process_item(item) == {[item_id |-> item.id] @@ r : r \in ReviewSamples}

StatusOf(r) == Get(Get(r, "ai_review", <<>>), "status", "none")

ConfidenceOf(r) == Get(Get(r, "ai_review", <<>>), "final_confidence", Zero)

\* sum(1 for r in results if r.get('ai_review', {}).get('status') == status)
CountStatus(results, status) ==
  Cardinality({i \in 1..Len(results) : StatusOf(results[i]) = status})

\* the indices of the results, to count those that satisfy a condition
Indices(results) == 1..Len(results)

RiskOf(r) == Get(Get(r, "bias_disinformation_analysis", <<>>), "overall_risk", Zero)

\* f"{x:.2f}": x rounded to two decimals
Round2(x) == Rat((2 * 100 * x.n + x.d) \div (2 * x.d), 100)

\* the issues of the results from position i on, in the order the loop of
\* _identify_main_issues appends them
RECURSIVE issues_from(_, _)
issues_from(results, i) ==
  IF i > Len(results) THEN <<>>
  ELSE LET result == results[i]
           review == Get(result, "ai_review", <<>>)
           bias_analysis == Get(result, "bias_disinformation_analysis", <<>>)
       IN  (IF StatusOf(result) = "rejected"
            THEN <<[item_id |-> result.item_id,
                    issue_type |-> "rejection",
                    reason |-> Get(review, "reason", "Motivo não especificado"),
                    confidence |-> Get(review, "final_confidence", Zero)]>>
            ELSE <<>>)
           \o (IF RLt(Rat(6, 10), RiskOf(result))
               THEN <<[item_id |-> result.item_id,
                       issue_type |-> "high_bias_risk",
                       reason |-> [text |-> "Alto risco de viés detectado",
                                   risk |-> Round2(RiskOf(result))],
                       details |-> Get(bias_analysis, "detected_bias_keywords", <<>>)]>>
               ELSE <<>>)
           \o issues_from(results, i + 1)

\* the list cut after eleven issues
_identify_main_issues_eleven(results) ==
  SubSeq(issues_from(results, 1), 1,
         IF Len(issues_from(results, 1)) < 11 THEN Len(issues_from(results, 1)) ELSE 11)

\* AIVerificationService._identify_main_issues: issues[:10]
_identify_main_issues(results) ==
  SubSeq(issues_from(results, 1), 1,
         IF Len(issues_from(results, 1)) < 10 THEN Len(issues_from(results, 1)) ELSE 10)

SentimentOf(r) == Get(Get(r, "sentiment_analysis", <<>>), "classification", "none")

\* the warning also for a batch of which exactly half is rejected
high_rejection_rate_from_half(rejected_count, total_count) ==
  RLe(RMul(Rat(total_count, 1), Rat(5, 10)), Rat(rejected_count, 1))

\* rejected_count > total_count * 0.5
high_rejection_rate(rejected_count, total_count) ==
  RLt(RMul(Rat(total_count, 1), Rat(5, 10)), Rat(rejected_count, 1))

\* the default recommendation added to whatever was recommended
with_default_appended(recommendations) ==
  Append(recommendations, [text |-> "Dados aprovados na verificação AI"])

\* if not recommendations: recommendations.append(<default>)
with_default(recommendations) ==
  IF recommendations = <<>>
  THEN <<[text |-> "Dados aprovados na verificação AI"]>>
  ELSE recommendations

\* AIVerificationService._generate_recommendations
_generate_recommendations(results) ==
  LET total_count == Len(results)
      rejected_count == CountStatus(results, "rejected")
      negative_sentiment_count ==
        Cardinality({i \in Indices(results) : SentimentOf(results[i]) = "negative"})
      high_bias_count ==
        Cardinality({i \in Indices(results) : RLt(Rat(6, 10), RiskOf(results[i]))})
      low_confidence_count ==
        Cardinality({i \in Indices(results) :
                       RLt(ConfidenceOf(results[i]), Rat(5, 10))})
      recommendations ==
        (IF high_rejection_rate(rejected_count, total_count)
         THEN <<[text |-> "Alta taxa de rejeição detectada"]>> ELSE <<>>)
        \o (IF RLt(RMul(Rat(total_count, 1), Rat(3, 10)),
                   Rat(negative_sentiment_count, 1))
            THEN <<[text |-> "Alto volume de conteúdo com sentimento negativo"]>>
            ELSE <<>>)
        \o (IF high_bias_count > 0
            THEN <<[text |-> "itens com alto risco de viés detectados",
                    count |-> high_bias_count]>>
            ELSE <<>>)
        \o (IF RLt(RMul(Rat(total_count, 1), Rat(3, 10)), Rat(low_confidence_count, 1))
            THEN <<[text |-> "Muitos itens com baixa confiança"]>> ELSE <<>>)
  IN  with_default(recommendations)

\* the tests of lines 227 and 229
high_confidence(c) == RLt(Rat(8, 10), c)
low_confidence(c) == RLt(c, Rat(5, 10))

\* the medium bucket without its two boundary values
medium_confidence_open(c) == RLt(Rat(5, 10), c) /\ RLt(c, Rat(8, 10))

\* the test of line 228: 0.5 <= final_confidence <= 0.8
medium_confidence(c) == RLe(Rat(5, 10), c) /\ RLe(c, Rat(8, 10))

\* a tie counted as approved
overall_status_tie_approved(approved_items, rejected_items) ==
  IF approved_items >= rejected_items THEN "approved" ELSE "rejected"

\* 'approved' if approved_items > rejected_items else 'rejected'
overall_status(approved_items, rejected_items) ==
  IF approved_items > rejected_items THEN "approved" ELSE "rejected"

\* the approved share as a fraction of one
approval_rate_fraction(approved_items, total_items) ==
  IF total_items > 0 THEN Rat(approved_items, total_items) ELSE Zero

\* (approved_items / total_items * 100) if total_items > 0 else 0
approval_rate(approved_items, total_items) ==
  IF total_items > 0 THEN Rat(approved_items * 100, total_items) ELSE Zero

\* AIVerificationService._compile_verification_result (session id and times
\* omitted)
_compile_verification_result(results) ==
  LET total_items == Len(results)
      approved_items == CountStatus(results, "approved")
      rejected_items == CountStatus(results, "rejected")
      error_items == CountStatus(results, "error")
      confidence_list == [i \in 1..Len(results) |-> ConfidenceOf(results[i])]
      avg_confidence == IF total_items > 0
                        THEN RMul(RSum(confidence_list), Rat(1, total_items))
                        ELSE Zero
  IN  [statistics |->
         [total_items_analyzed |-> total_items,
          items_approved |-> approved_items,
          items_rejected |-> rejected_items,
          items_with_errors |-> error_items,
          approval_rate |-> approval_rate(approved_items, total_items),
          average_confidence |-> avg_confidence],
       main_issues |-> _identify_main_issues(results),
       recommendations |-> _generate_recommendations(results),
       detailed_results |-> results,
       overall_status |-> overall_status(approved_items, rejected_items),
       quality_score |-> RMul(avg_confidence, Rat(100, 1)),
       verification_summary |->
         [high_confidence_items |->
            Cardinality({i \in Indices(results) :
                           high_confidence(ConfidenceOf(results[i]))}),
          medium_confidence_items |->
            Cardinality({i \in Indices(results) :
                           medium_confidence(ConfidenceOf(results[i]))}),
          low_confidence_items |->
            Cardinality({i \in Indices(results) :
                           low_confidence(ConfidenceOf(results[i]))})]]

\* AIVerificationService._create_empty_result
_create_empty_result ==
  [statistics |->
     [total_items_analyzed |-> 0, items_approved |-> 0, items_rejected |-> 0,
      items_with_errors |-> 0, approval_rate |-> Zero, average_confidence |-> Zero],
   main_issues |-> <<>>,
   recommendations |-> <<[text |-> "Nenhum dado encontrado para verificação"]>>,
   detailed_results |-> <<>>,
   overall_status |-> "no_data",
   quality_score |-> Zero,
   verification_summary |->
     [high_confidence_items |-> 0, medium_confidence_items |-> 0,
      low_confidence_items |-> 0]]

\* AIVerificationService._create_error_result
_create_error_report ==
  [error |-> "error_message",
   statistics |->
     [total_items_analyzed |-> 0, items_approved |-> 0, items_rejected |-> 0,
      items_with_errors |-> 1, approval_rate |-> Zero, average_confidence |-> Zero],
   main_issues |-> <<[issue_type |-> "system_error", reason |-> "error_message"]>>,
   recommendations |-> <<[text |-> "Erro no sistema de verificação"]>>,
   detailed_results |-> <<>>,
   overall_status |-> "error",
   quality_score |-> Zero,
   verification_summary |->
     [high_confidence_items |-> 0, medium_confidence_items |-> 0,
      low_confidence_items |-> 0]]

\* process_session_data, lines 52-64: prepare the items; return the error
\* result when the preparation raises and the empty result without items
StartSession ==
  /\ pc = "idle"
  /\ session_stats.items_processed + MaxEntries <= MaxProcessed
  /\ \E data \in DataSamples :
       /\ data_to_verify' = data
       /\ verification_results' = <<>>
       /\ IF PrepareRaises(data)
          THEN /\ items_to_analyze' = <<>>
               /\ final_result' = _create_error_report
               /\ pc' = "idle"
          ELSE /\ items_to_analyze' = _prepare_data_for_analysis(data)
               /\ IF _prepare_data_for_analysis(data) = <<>>
                  THEN final_result' = _create_empty_result /\ pc' = "idle"
                  ELSE final_result' = NoResult /\ pc' = "loop"
  /\ UNCHANGED <<rules, engine_vars, requests, session_stats>>

\* the loop putting each result in front of the earlier ones
ProcessItemPrepending ==
  /\ pc = "loop"
  /\ Len(verification_results) < Len(items_to_analyze)
  /\ \E result \in process_item(items_to_analyze[Len(verification_results) + 1]) :
       /\ verification_results' = <<result>> \o verification_results
       /\ session_stats' =
            [items_processed |-> session_stats.items_processed + 1,
             items_approved |-> session_stats.items_approved
                                  + (IF StatusOf(result) = "approved" THEN 1 ELSE 0),
             items_rejected |-> session_stats.items_rejected
                                  + (IF StatusOf(result) = "rejected" THEN 1 ELSE 0)]
  /\ UNCHANGED <<rules, engine_vars, requests, data_to_verify, items_to_analyze, pc, final_result>>

\* process_session_data, lines 68-82: one iteration of the loop
ProcessItem ==
  /\ pc = "loop"
  /\ Len(verification_results) < Len(items_to_analyze)
  /\ \E result \in process_item(items_to_analyze[Len(verification_results) + 1]) :
       /\ verification_results' = Append(verification_results, result)
       /\ session_stats' =
            [items_processed |-> session_stats.items_processed + 1,
             items_approved |-> session_stats.items_approved
                                  + (IF StatusOf(result) = "approved" THEN 1 ELSE 0),
             items_rejected |-> session_stats.items_rejected
                                  + (IF StatusOf(result) = "rejected" THEN 1 ELSE 0)]
  /\ UNCHANGED <<rules, engine_vars, requests, data_to_verify, items_to_analyze, pc, final_result>>

\* process_session_data, lines 84-95: compile and return the report (the
\* files written by _save_verification_result are not part of the state)
CompileResult ==
  /\ pc = "loop"
  /\ Len(verification_results) = Len(items_to_analyze)
  /\ final_result' = _compile_verification_result(verification_results)
  /\ pc' = "idle"
  /\ UNCHANGED <<rules, engine_vars, requests, session_stats, data_to_verify, items_to_analyze,
                 verification_results>>

NextService == StartSession \/ ProcessItem \/ CompileResult

SpecService == Init /\ [][NextService]_vars

\* C9: in every report the approved, rejected and errored counts add up to
\* the number of items analysed.
C9_CountsSumToTotal ==
  final_result # NoResult =>
    final_result.statistics.items_approved + final_result.statistics.items_rejected
      + final_result.statistics.items_with_errors
      = final_result.statistics.total_items_analyzed

\* C10: the report of a processed batch has one result per prepared item, in
\* input order, each with one decision.
C10_OneResultPerItemInOrder ==
  (pc = "idle" /\ final_result # NoResult /\ items_to_analyze # <<>>) =>
    /\ Len(final_result.detailed_results) = Len(items_to_analyze)
    /\ \A i \in 1..Len(items_to_analyze) :
         /\ final_result.detailed_results[i].item_id = items_to_analyze[i].id
         /\ final_result.detailed_results[i] \in process_item(items_to_analyze[i])
         /\ StatusOf(final_result.detailed_results[i]) \in {"approved", "rejected"}

\* a report over two items of which an entry of the input was skipped
C10_Witness ==
  /\ pc = "idle"
  /\ final_result # NoResult
  /\ Len(items_to_analyze) = 2
  /\ Len(data_to_verify) > Len(items_to_analyze)
  /\ Len(final_result.detailed_results) = 2
  /\ final_result.detailed_results[1].item_id # final_result.detailed_results[2].item_id

---------------------------------------------------------------------------
(* The service with larger batches: it starts either idle or at the end of *)
(* the loop of a batch of two or more items that have all been processed   *)

MaxBatch == 4
LargeBatch == 10

\* data_to_verify with n entries in analysis_results
BatchData(n) == [i \in 1..n |-> [section |-> "analysis_results", kind |-> "kept"]]

\* a clean approval and a rejection with a high risk
LargeBatchSamples ==
  {r \in ReviewSamples :
     \/ StatusOf(r) = "approved" /\ ~RLt(Rat(6, 10), RiskOf(r))
     \/ StatusOf(r) = "rejected" /\ RLt(Rat(6, 10), RiskOf(r))}

\* the results of the loop over n items: every result of the agent for up to
\* MaxBatch items, the results of LargeBatchSamples for more
BatchResults(n) ==
  LET items == _prepare_data_for_analysis(BatchData(n))
      samples == IF n > MaxBatch THEN LargeBatchSamples ELSE ReviewSamples
  IN  {[i \in 1..n |-> [item_id |-> items[i].id] @@ f[i]] : f \in [1..n -> samples]}

InitReport ==
  /\ rules = DefaultRules
  /\ verification_stats = InitStats
  /\ item_data = NoResult
  /\ analysis_result = NoResult
  /\ rule_result = NoResult
  /\ verification_result = NoResult
  /\ InitSynthesis
  /\ \/ InitService
     \/ \E n \in 2..LargeBatch :
          /\ data_to_verify = BatchData(n)
          /\ items_to_analyze = _prepare_data_for_analysis(BatchData(n))
          /\ verification_results \in BatchResults(n)
          /\ session_stats =
               [items_processed |-> n,
                items_approved |-> CountStatus(verification_results, "approved"),
                items_rejected |-> CountStatus(verification_results, "rejected")]
          /\ pc = "loop"
          /\ final_result = NoResult
          /\ requests = [t \in Requests |-> IdleRequest]

SpecReport == InitReport /\ [][NextService]_vars

---------------------------------------------------------------------------
(* Concurrent requests: routes/ai_verification.py keeps one                *)
(* AIVerificationService at module level and every request calls its       *)
(* process_session_data. session_stats[key] += 1 reads the counter and     *)
(* writes it back in two steps, without a lock.                            *)

MaxRequestItems == 2

\* the counter a result is counted in, lines 76-80
StatusKey(result) ==
  IF StatusOf(result) = "approved" THEN "items_approved"
  ELSE IF StatusOf(result) = "rejected" THEN "items_rejected"
  ELSE "items_processed"

\* lines 52-67: the items are prepared; without items the empty result is
\* returned
RequestStart(t) ==
  /\ requests[t].pc = "idle"
  /\ \E n \in 0..MaxRequestItems :
       requests' =
         [requests EXCEPT
            ![t] = IF n = 0
                   THEN [@ EXCEPT !.pc = "done", !.final_result = _create_empty_result]
                   ELSE [@ EXCEPT !.pc = "call",
                                  !.items_to_analyze =
                                     _prepare_data_for_analysis(BatchData(n))]]
  /\ UNCHANGED <<rules, engine_vars, session_stats, data_to_verify, items_to_analyze,
                 verification_results, pc, final_result>>

\* lines 72-76: the agent processes the next item and the result is appended
RequestProcessItem(t) ==
  /\ requests[t].pc = "call"
  /\ \E r \in LargeBatchSamples :
       \E result \in
           {[item_id |->
               requests[t].items_to_analyze[Len(requests[t].verification_results) + 1].id]
              @@ r} :
         requests' =
           [requests EXCEPT
              ![t] = [@ EXCEPT !.pc = "read",
                               !.key = StatusKey(result),
                               !.verification_results = Append(@, result)]]
  /\ UNCHANGED <<rules, engine_vars, session_stats, data_to_verify, items_to_analyze,
                 verification_results, pc, final_result>>

\* lines 78, 80 and 82, first half: the counter is read
RequestReadCounter(t) ==
  /\ requests[t].pc = "read"
  /\ requests' = [requests EXCEPT ![t] = [@ EXCEPT !.pc = "write",
                                                   !.counter = session_stats[requests[t].key]]]
  /\ UNCHANGED <<rules, engine_vars, session_stats, data_to_verify, items_to_analyze,
                 verification_results, pc, final_result>>

\* lines 78, 80 and 82, second half: the value read plus one is stored; the
\* loop goes on with items_processed, the next item or the report
RequestWriteCounter(t) ==
  /\ requests[t].pc = "write"
  /\ session_stats' = [session_stats EXCEPT ![requests[t].key] = requests[t].counter + 1]
  /\ requests' =
       [requests EXCEPT
          ![t] = IF @.key # "items_processed"
                 THEN [@ EXCEPT !.pc = "read", !.key = "items_processed"]
                 ELSE IF Len(@.verification_results) < Len(@.items_to_analyze)
                 THEN [@ EXCEPT !.pc = "call"]
                 ELSE [@ EXCEPT !.pc = "compile"]]
  /\ UNCHANGED <<rules, engine_vars, data_to_verify, items_to_analyze,
                 verification_results, pc, final_result>>

\* lines 84-95: the report is compiled and returned
RequestCompile(t) ==
  /\ requests[t].pc = "compile"
  /\ requests' =
       [requests EXCEPT
          ![t] = [@ EXCEPT !.pc = "done",
                           !.final_result =
                              _compile_verification_result(
                                requests[t].verification_results)]]
  /\ UNCHANGED <<rules, engine_vars, session_stats, data_to_verify, items_to_analyze,
                 verification_results, pc, final_result>>

NextConcurrent ==
  \E t \in Requests :
    \/ RequestStart(t)
    \/ RequestProcessItem(t)
    \/ RequestReadCounter(t)
    \/ RequestWriteCounter(t)
    \/ RequestCompile(t)

SpecConcurrent == Init /\ [][NextConcurrent]_vars

\* the number of results with a status over all requests
Counted(status) ==
  LET n(t) == CountStatus(requests[t].verification_results, status)
  IN  n(1) + n(2)

\* C15: when two concurrent batches on the shared service have finished, the
\* running counters equal the totals over both batches: no update is lost.
C15_NoLostUpdate ==
  (\A t \in Requests : requests[t].pc = "done") =>
    /\ session_stats.items_processed
         = Len(requests[1].verification_results) + Len(requests[2].verification_results)
    /\ session_stats.items_approved = Counted("approved")
    /\ session_stats.items_rejected = Counted("rejected")

\* the entries of the input that are items of the batch: those that pass the
\* isinstance/truthiness test of their section
Submitted(data) == {i \in 1..Len(data) : data[i].kind \in {"kept", "raises"}}

\* a call of process_session_data has returned its report
Reported == pc = "idle" /\ final_result # NoResult

\* C11: a failure while handling one item of a batch is isolated: the report
\* still covers every item of the batch, the failing item is rejected and no
\* report with zero items is returned for a batch that has items.
C11_ItemFailureIsolated ==
  (Reported /\ PrepareRaises(data_to_verify)) =>
    /\ final_result.statistics.total_items_analyzed
         = Cardinality(Submitted(data_to_verify))
    /\ Len(final_result.detailed_results) = Cardinality(Submitted(data_to_verify))
    /\ \E k \in 1..Len(final_result.detailed_results) :
         StatusOf(final_result.detailed_results[k]) = "rejected"

\* the composite of an item with the signal of the failing analyzer replaced
\* by the neutral value 0.5 and the other signals as extracted
NeutralComposite(item) ==
  LET text == _extract_text_content(item)
      f == failing_extractor(item)
      s == IF f = "sentiment" THEN Rat(1, 2) ELSE analyze_sentiment(text).confidence
      r == IF f = "bias" THEN Rat(1, 2)
           ELSE detect_bias_disinformation(text).overall_risk
      c == IF f = "contextual" THEN Rat(1, 2)
           ELSE analyze_context(item).contextual_confidence
  IN  RAdd(RAdd(RMul(s, Rat(2, 10)), RMul(RSub(One, r), Rat(3, 10))),
           RMul(c, Rat(5, 10)))

\* C12: when an analyzer fails on an item, the failure is not fatal for the
\* item: only the failed signal is replaced by the neutral value 0.5 and the
\* decision is computed from it and the remaining signals.
C12_ExtractorFailureNeutral ==
  (Returned /\ failing_extractor(item_data) # "none") =>
    /\ "error" \notin DOMAIN ai_review
    /\ "confidence_breakdown" \in DOMAIN ai_review
    /\ ai_review.final_confidence = NeutralComposite(item_data)

\* C13: verifying the same item again on the same engine gives the same
\* result (item id, decision, signals), however many items the engine has
\* verified in between.
C13_SameItemSameResult ==
  [][(item_data # NoResult /\ item_data' = item_data)
       => verification_result' = verification_result]_vars

\* C14: the evaluation of an item writes no shared state and its result is
\* the one the item gets when it is evaluated alone on a fresh engine, so the
\* order in which the items of a batch are evaluated does not matter.
C14_EvaluationIsPure ==
  [][/\ verification_stats' = verification_stats
     /\ verification_result' = verify_content_item(item_data', InitStats).result]_vars

\* C18: the main issues of a report are at most 10.
C18_AtMostTenIssues ==
  final_result # NoResult => Len(final_result.main_issues) <= 10

\* a report over results with more than ten issues
C18_Witness ==
  /\ Reported
  /\ Len(issues_from(verification_results, 1)) > 10
  /\ Len(final_result.main_issues) = 10
  /\ final_result.detailed_results = verification_results

\* the positions of the issues of a type in a list of issues
IssuesOfType(issues, type) == {k \in 1..Len(issues) : issues[k].issue_type = type}

\* C19: the main issues are those of the rejected items and of the items with
\* a risk above 0.6, the rejection issues first: no high-bias issue precedes
\* a rejection issue, and a rejection issue is left out by the cap only when
\* the ten issues kept are all rejection issues.
C19_RejectionsRankedFirst ==
  (Reported /\ verification_results # <<>>) =>
    LET issues == final_result.main_issues
        rejections == IssuesOfType(issues, "rejection")
        high_bias == IssuesOfType(issues, "high_bias_risk")
    IN  /\ \A k \in 1..Len(issues) :
             \E i \in 1..Len(verification_results) :
               /\ issues[k].item_id = verification_results[i].item_id
               /\ IF k \in rejections
                  THEN StatusOf(verification_results[i]) = "rejected"
                  ELSE RLt(Rat(6, 10), RiskOf(verification_results[i]))
        /\ \A j \in high_bias : \A k \in rejections : k < j
        /\ Cardinality(rejections) < CountStatus(verification_results, "rejected")
             => Cardinality(rejections) = 10 /\ high_bias = {}

\* C20: the approval rate of a report is the approved share of its items as a
\* percentage, 0 for a report without items; ten items of which six are
\* rejected and four approved give 40.
C20_ApprovalRate ==
  Reported =>
    LET total == Len(verification_results)
        approved == CountStatus(verification_results, "approved")
        rate == final_result.statistics.approval_rate
    IN  /\ total = 0 => rate = Zero
        /\ total > 0 => RMul(rate, Rat(total, 1)) = Rat(100 * approved, 1)
        /\ (total = 10 /\ approved = 4
              /\ CountStatus(verification_results, "rejected") = 6)
             => rate = Rat(40, 1)

\* the report of ten items of which six are rejected and four approved
C20_Witness ==
  /\ Reported
  /\ Len(verification_results) = 10
  /\ CountStatus(verification_results, "approved") = 4
  /\ CountStatus(verification_results, "rejected") = 6
  /\ final_result.statistics.total_items_analyzed = 10
  /\ final_result.statistics.approval_rate = Rat(40, 1)

\* C16: a report that covers fewer items than were submitted carries the
\* marker partial = true.
C16_FewerItemsOnlyWithPartialMarker ==
  (Reported /\ Len(final_result.detailed_results)
                 < Cardinality(Submitted(data_to_verify))) =>
    Get(final_result, "partial", FALSE) = TRUE

\* C17: with an invalid configuration (an empty rule set) no item receives a
\* decision.
C17_InvalidConfigurationAborts ==
  rules = <<>> => verification_result = NoResult

\* the last call of process_session_data compiled a report from results
Compiled == Reported /\ verification_results # <<>>

RejectionWarning == [text |-> "Alta taxa de rejeição detectada"]

DefaultRecommendation == [text |-> "Dados aprovados na verificação AI"]

InSeq(x, seq) == \E k \in 1..Len(seq) : seq[k] = x

\* C21: the data-quality warning is recommended exactly when more than half
\* of the items of the batch are rejected; exactly half does not give it, six
\* of ten do.
C21_RejectionWarning ==
  Compiled =>
    LET total == Len(verification_results)
        rejected == CountStatus(verification_results, "rejected")
    IN  /\ InSeq(RejectionWarning, final_result.recommendations) <=> 2 * rejected > total
        /\ 2 * rejected = total =>
             ~InSeq(RejectionWarning, final_result.recommendations)
        /\ (total = 10 /\ rejected = 6) =>
             InSeq(RejectionWarning, final_result.recommendations)

\* the warning in the report of ten items of which six are rejected
C21_Witness ==
  /\ Compiled
  /\ Len(verification_results) = 10
  /\ CountStatus(verification_results, "rejected") = 6
  /\ InSeq(RejectionWarning, final_result.recommendations)

\* the four triggers of a recommendation, counted on the results
TriggersFired ==
  LET total == Len(verification_results)
      rejected == CountStatus(verification_results, "rejected")
      negative == Cardinality({i \in 1..total :
                                 SentimentOf(verification_results[i]) = "negative"})
      high_bias == Cardinality({i \in 1..total :
                                  RLt(Rat(6, 10), RiskOf(verification_results[i]))})
      low == Cardinality({i \in 1..total :
                            RLt(ConfidenceOf(verification_results[i]), Rat(1, 2))})
  IN  (IF 2 * rejected > total THEN 1 ELSE 0)
      + (IF 10 * negative > 3 * total THEN 1 ELSE 0)
      + (IF high_bias > 0 THEN 1 ELSE 0)
      + (IF 10 * low > 3 * total THEN 1 ELSE 0)

\* C22: the recommendations of a compiled report are never empty; the default
\* recommendation is among them exactly when none of the four triggers fired,
\* and then it is the only one.
C22_DefaultRecommendation ==
  Compiled =>
    /\ final_result.recommendations # <<>>
    /\ InSeq(DefaultRecommendation, final_result.recommendations) <=> TriggersFired = 0
    /\ TriggersFired = 0 => final_result.recommendations = <<DefaultRecommendation>>
    /\ TriggersFired > 0 => Len(final_result.recommendations) = TriggersFired

\* a report with the default recommendation alone although an item of the
\* batch is rejected
C22_Witness ==
  /\ Compiled
  /\ TriggersFired = 0
  /\ Len(verification_results) > 1
  /\ \E i \in 1..Len(verification_results) :
       StatusOf(verification_results[i]) = "rejected"
  /\ final_result.recommendations = <<DefaultRecommendation>>

\* C23: the confidence buckets partition the items: the three counts add up
\* to the number of items, each item is in the bucket of its confidence, and
\* the boundary values 0.5 and 0.8 are medium.
C23_BucketsPartition ==
  Compiled =>
    LET summary == final_result.verification_summary
        total == Len(verification_results)
        c(i) == ConfidenceOf(verification_results[i])
    IN  /\ summary.high_confidence_items + summary.medium_confidence_items
             + summary.low_confidence_items = total
        /\ summary.high_confidence_items
             = Cardinality({i \in 1..total : RLt(Rat(4, 5), c(i))})
        /\ summary.low_confidence_items
             = Cardinality({i \in 1..total : RLt(c(i), Rat(1, 2))})
        /\ summary.medium_confidence_items
             >= Cardinality({i \in 1..total : c(i) \in {Rat(1, 2), Rat(4, 5)}})

\* a report over items with the confidences 0.5 and 0.8, both counted medium
C23_Witness ==
  /\ Compiled
  /\ \E i, j \in 1..Len(verification_results) :
       /\ ConfidenceOf(verification_results[i]) = Rat(1, 2)
       /\ ConfidenceOf(verification_results[j]) = Rat(4, 5)
  /\ final_result.verification_summary.medium_confidence_items >= 2

ScenarioAVerified ==
  /\ Returned
  /\ _extract_text_content(item_data) = TxtScenarioA
  /\ failing_extractor(item_data) = "none"

\* C24: the text of scenario A is classified positive with an overall risk
\* of 0, matches no rule and is approved on the threshold path, its composite
\* being at least 0.75, and not by an action of the rule engine.
C24_ScenarioAThresholdPath ==
  ScenarioAVerified =>
    /\ FullyAnalysed
    /\ verification_result.sentiment_analysis.classification = "positive"
    /\ Risk = Zero
    /\ Matching = {}
    /\ ai_review.status = "approved"
    /\ RLe(thresholds.approval, Composite)
    /\ rule_result.status \notin {"approved", "rejected"}
    /\ ai_review.reason = "Aprovado com base na análise combinada"

\* C25: the polarity of every analysed text lies in [-1,1], the confidence
\* is min(|polarity| * 5 + 0.3, 1) in [0,1], and the classification is
\* positive above 0.05, negative below -0.05 and neutral in between.
C25_SentimentRanges ==
  FullyAnalysed =>
    LET sentiment == verification_result.sentiment_analysis
    IN  /\ RLe(Rat(-1, 1), sentiment.polarity) /\ RLe(sentiment.polarity, One)
        /\ sentiment.confidence
             = RMin(RAdd(RMul(RAbs(sentiment.polarity), Rat(5, 1)), Rat(3, 10)), One)
        /\ InUnit(sentiment.confidence)
        /\ sentiment.classification = "positive" <=> RLt(Rat(1, 20), sentiment.polarity)
        /\ sentiment.classification = "negative" <=> RLt(sentiment.polarity, Rat(-1, 20))
        /\ sentiment.classification \in {"positive", "negative", "neutral"}

\* C26: under the default configuration an item is rejected only for
\* insufficient content or after an exception: the overall risk is at most
\* 0.6, the risk rule never fires and every fully analysed item is approved.
C26_DefaultNeverRejectsAnalysed ==
  Returned =>
    /\ ai_review.status = "rejected" =>
         \/ "insufficient_content" \in DOMAIN ai_review
         \/ "error" \in DOMAIN ai_review
    /\ FullyAnalysed =>
         /\ RLe(Risk, Rat(6, 10))
         /\ rule_result.triggered_rules = <<>>
         /\ ai_review.status = "approved"

\* a text with all six bias keywords and all three disinformation patterns
C26_Witness ==
  /\ FullyAnalysed
  /\ Len(verification_result.bias_disinformation_analysis.detected_bias_keywords) = 6
  /\ Len(verification_result.bias_disinformation_analysis.detected_disinformation_patterns)
       = 3
  /\ Risk = Rat(6, 10)
  /\ ai_review.status = "approved"

\* C27: under the default extractors the composite of a fully analysed item
\* lies between 0.51 and 0.83, below the rule bound 0.85 and above the
\* rejection threshold 0.35; only insufficient-content and error results,
\* with confidence 0, are below 0.5.
C27_CompositeRange ==
  Returned =>
    /\ FullyAnalysed =>
         /\ RLe(Rat(51, 100), Composite) /\ RLe(Composite, Rat(83, 100))
         /\ RLt(Composite, thresholds.high_confidence)
         /\ RLt(thresholds.rejection, Composite)
         /\ verification_result.contextual_analysis.contextual_confidence = Rat(66, 100)
    /\ RLt(Composite, Rat(1, 2)) =>
         /\ Composite = Zero
         /\ \/ "insufficient_content" \in DOMAIN ai_review
            \/ "error" \in DOMAIN ai_review

\* the lowest composite: no sentiment word and the highest risk
C27_Witness ==
  /\ FullyAnalysed
  /\ verification_result.sentiment_analysis.confidence = Rat(3, 10)
  /\ Risk = Rat(6, 10)
  /\ Composite = Rat(51, 100)

\* the result is the insufficient-content or the error result
NotAnalysed(result) ==
  /\ result # NoResult
  /\ \/ "insufficient_content" \in DOMAIN result.ai_review
     \/ "error" \in DOMAIN result.ai_review

\* C28: approved + rejected = total_verified after every call, no counter
\* decreases, a call of the full pipeline adds one to total_verified and a
\* call that ends in the insufficient-content or the error result leaves the
\* three counters as they were.
C28_StatsCountFullCalls ==
  [][/\ verification_stats'.approved + verification_stats'.rejected
          = verification_stats'.total_verified
     /\ verification_stats'.total_verified >= verification_stats.total_verified
     /\ verification_stats'.approved >= verification_stats.approved
     /\ verification_stats'.rejected >= verification_stats.rejected
     /\ NotAnalysed(verification_result') => verification_stats' = verification_stats
     /\ ~NotAnalysed(verification_result') =>
          verification_stats'.total_verified = verification_stats.total_verified + 1]_vars

\* an insufficient-content result on an engine that has verified items before
C28_Witness ==
  /\ Returned
  /\ "insufficient_content" \in DOMAIN ai_review
  /\ verification_stats.total_verified > 0
  /\ verification_stats.approved = verification_stats.total_verified

---------------------------------------------------------------------------
(* Specification of the synthesis: _verify_all_data and                    *)
(* _build_verified_context on the web items of a consolidation             *)

MaxWeb == 3

UrlSamples == {"u1", "u2"}

\* titles without text, of two characters and of a neutral sentence
TituloSamples == {<<>>, TxtTwo, TxtNeutral}

\* an element of dados_web that is a JSON object
WebObject(titulo, url) == [json |-> "object", titulo |-> titulo, url |-> url]

\* the elements json.load can put into dados_web: objects and a string
WebSamples ==
  {WebObject(t, "u1") : t \in TituloSamples}
    \cup {WebObject(TxtNeutral, u) : u \in UrlSamples}
    \cup {[json |-> "string", value |-> "u1"]}

RECURSIVE seqs_up_to(_, _)
seqs_up_to(S, n) ==
  IF n = 0 THEN {<<>>}
  ELSE LET shorter == seqs_up_to(S, n - 1)
       IN  shorter \cup {Append(q, x) : q \in {r \in shorter : Len(r) = n - 1}, x \in S}

\* item.get raises for an element that is not a dict, lines 622-625
get_raises(item) == item.json # "object"

\* the item_data built in lines 620-626 for the element at position idx
web_item_data(item, idx) ==
  [id |-> [kind |-> "web", n |-> idx],
   content |-> item.titulo,
   title |-> item.titulo,
   source |-> item.url,
   description |-> <<>>,
   str_raises |-> FALSE]

\* lines 631-635 for one item: out is what verify_content_item returned for
\* the item_data built from it
separate(acc, item, data, out) ==
  [raised |-> FALSE,
   stats |-> out.stats,
   approved_items |-> IF out.result.ai_review.status = "approved"
                      THEN Append(acc.approved_items, item) ELSE acc.approved_items,
   rejected_items |-> IF out.result.ai_review.status = "approved"
                      THEN acc.rejected_items ELSE Append(acc.rejected_items, item),
   last |-> [item_data |-> data, out |-> out]]

\* the loop of lines 618-635 from position idx on: the two lists, the
\* statistics of the engine, the last verify_content_item call and whether
\* the loop was left by an exception
RECURSIVE verify_web_items(_, _, _)
verify_web_items(dados_web, idx, acc) ==
  IF idx > Len(dados_web) THEN acc
  ELSE IF get_raises(dados_web[idx]) THEN [acc EXCEPT !.raised = TRUE]
  ELSE verify_web_items(dados_web, idx + 1,
         separate(acc, dados_web[idx], web_item_data(dados_web[idx], idx),
                  verify_content_item(web_item_data(dados_web[idx], idx), acc.stats)))

\* f"{x * 100:.1f}%" of a rate, in tenths of a percent
taxa_aprovacao(rate) == (2 * 1000 * rate.n + rate.d) \div (2 * rate.d)

\* the dict returned in lines 644-657
verified_data_of(dados_web, approved_items, rejected_items) ==
  LET total == Len(dados_web)
      approved_count == Len(approved_items)
      rejected_count == Len(rejected_items)
      rate == Rat(approved_count, IF total > 1 THEN total ELSE 1)
  IN  [total_items |-> total,
       approved_items |-> approved_count,
       rejected_items |-> rejected_count,
       approval_rate |-> rate,
       approved_data |-> approved_items,
       rejected_data |-> rejected_items,
       stats |-> [total_analisados |-> total,
                  aprovados |-> approved_count,
                  rejeitados |-> rejected_count,
                  taxa_aprovacao |-> taxa_aprovacao(rate)]]

\* the dict returned by the except branch, lines 661-669
verified_data_on_error ==
  [total_items |-> 0, approved_items |-> 0, rejected_items |-> 0,
   approval_rate |-> Zero, approved_data |-> <<>>, rejected_data |-> <<>>,
   stats |-> <<>>]

\* json.dumps of one web object: its keys and values in order
dumps(item) == <<"titulo", item.titulo, "url", item.url>>

\* EnhancedSynthesisEngine._build_verified_context: the numbers of the header
\* lines and the dump of approved_data
_build_verified_context(verified) ==
  [total_items |-> verified.total_items,
   approved_items |-> verified.approved_items,
   approval_rate |-> verified.approval_rate,
   rejected_items |-> verified.rejected_items,
   dados_aprovados |->
     [i \in 1..Len(verified.approved_data) |-> dumps(verified.approved_data[i])]]

\* EnhancedSynthesisEngine._verify_all_data followed by
\* _build_verified_context, phases 2 and 3 of execute_deep_specialization_study,
\* for the first study of an engine
VerifyAllData ==
  \E dados_web \in seqs_up_to(WebSamples, MaxWeb) :
    /\ verified_data = NoResult
    /\ \E run \in {verify_web_items(dados_web, 1,
                     [raised |-> FALSE, stats |-> verification_stats,
                      approved_items |-> <<>>, rejected_items |-> <<>>,
                      last |-> NoResult])} :
         /\ consolidacao_data' = dados_web
         /\ verified_data' = IF run.raised THEN verified_data_on_error
                             ELSE verified_data_of(dados_web, run.approved_items,
                                                   run.rejected_items)
         /\ full_context' = _build_verified_context(verified_data')
         /\ verification_stats' = run.stats
         /\ IF run.last = NoResult
            THEN UNCHANGED <<item_data, analysis_result, rule_result, verification_result>>
            ELSE /\ item_data' = run.last.item_data
                 /\ analysis_result' = run.last.out.analysis
                 /\ rule_result' = run.last.out.rule
                 /\ verification_result' = run.last.out.result
    /\ UNCHANGED <<rules, service_vars>>

NextSynthesis == VerifyAllData

SpecSynthesis == Init /\ [][NextSynthesis]_vars

\* the decision status of a web item at position idx, "none" for an element
\* that verify_content_item cannot be called on
web_status(item, idx) ==
  IF get_raises(item) THEN "none"
  ELSE verify_content_item(web_item_data(item, idx), InitStats).result.ai_review.status

\* the positions of dados_web whose item has, or has not, the status approved
RECURSIVE web_positions(_, _, _)
web_positions(dados_web, idx, approved) ==
  IF idx > Len(dados_web) THEN <<>>
  ELSE (IF (web_status(dados_web[idx], idx) = "approved") = approved
        THEN <<dados_web[idx]>> ELSE <<>>)
         \o web_positions(dados_web, idx + 1, approved)

\* C30: approved_data and rejected_data partition the web items in input
\* order, an item is in approved_data iff its status is approved,
\* approved_items + rejected_items = total_items = the number of web items,
\* and the context holds exactly the items of approved_data.
C30_VerifiedDataPartition ==
  verified_data # NoResult =>
    /\ verified_data.approved_data = web_positions(consolidacao_data, 1, TRUE)
    /\ verified_data.rejected_data = web_positions(consolidacao_data, 1, FALSE)
    /\ verified_data.total_items = Len(consolidacao_data)
    /\ verified_data.approved_items + verified_data.rejected_items
         = verified_data.total_items
    /\ verified_data.approved_items = Len(verified_data.approved_data)
    /\ verified_data.rejected_items = Len(verified_data.rejected_data)
    /\ full_context.dados_aprovados
         = [i \in 1..Len(verified_data.approved_data) |->
              dumps(verified_data.approved_data[i])]

====
